---- MODULE Spec2Model ----
(***************************************************************************)
(* sagify cloud commands: one run of `sagify cloud <command>`.             *)
(*                                                                         *)
(* A run is: the shell invokes a click command with its flags; click runs  *)
(* the option callbacks (validate_tags); the command body logs, calls the  *)
(* function of sagify.api.cloud, which reads <dir>/sagify/config.json,     *)
(* (train only) loads the hyperparameter file, constructs the SageMaker    *)
(* client and calls one operation of it; the body logs the result or       *)
(* catches ValueError and exits with -1.                                   *)
(*                                                                         *)
(* Python None is the string NONE for string-valued options, and the empty *)
(* tuple <<>> for an optional structured value (<<v>> when present).       *)
(***************************************************************************)
EXTENDS Integers, Sequences, FiniteSets, TLC

VARIABLES
    pc,          \* position of the run
    cmd,         \* the click command invoked
    flags,       \* the command's options as click received them
    obj,         \* click's context object (holds docker_tag)
    wanted,      \* the instance count the caller asks for
    tags,        \* value of --aws-tags after the validate_tags callback
    api,         \* <<arguments of the sagify.api.cloud function called>>
    config,      \* <<config read by _read_config>>
    hyperparams_dict, \* <<dict loaded by _read_hyperparams_config>> or <<>> (None)
    files_read,  \* paths opened so far, in order
    clients,     \* SageMakerClient constructor calls so far, in order
    calls,       \* client operations called so far, in order
    client_ret,  \* value returned by the client operation
    ret,         \* value returned by the api function
    exc,         \* <<exception raised>>
    handled,     \* the except clause of the command body was entered
    log,         \* logger.info records, in order
    exit_code    \* the process's exit status (meaningful when pc = "exited")

vars == <<pc, cmd, flags, obj, wanted, tags, api, config, hyperparams_dict,
          files_read, clients, calls, client_ret, ret, exc, handled, log,
          exit_code>>

NONE == "None"

(***************************************************************************)
(* Bounds and the values the flags are drawn from.                         *)
(***************************************************************************)
MaxInstances == 2

DefaultVolumeSize == 30
DefaultTimeOut == 24 * 60 * 60

Dirs == {".", "", "proj", "proj/", "empty"}
LocalDirs == {"data", "/tmp/in"}
Locations == {"s3://bkt/a", "s3://bkt/b"}
Ec2Types == {"ml.m4.xlarge", "ml.p2.xlarge"}
VolumeSizes == {DefaultVolumeSize, 50}
TimeOuts == {DefaultTimeOut, 3600}
Roles == {NONE, "arn:aws:iam::1:role/r"}
ExternalIds == {NONE, "ext-1"}
BaseJobNames == {NONE, "base"}
JobNames == {NONE, "job-1"}
DockerTags == {"latest", "v2"}
InstanceCounts == 1..MaxInstances
HyperparamsFiles == {NONE, "/w/hp.json", "/w/bad.json", "/w/absent.json"}

\* --aws-tags as typed on the command line: <<>> when the option is absent,
\* <<string>> otherwise, a string being a tuple of characters.
TagStrings ==
    { <<"k", "=", "v">>,
      <<"k", "=", "v", ";", "a", "=", "b">>,
      <<"k">>,
      <<"k", "=", "v", ";">> }
TagOptions == {<<>>} \cup { <<s>> : s \in TagStrings }

(***************************************************************************)
(* The file system the run reads. The program never writes it.             *)
(***************************************************************************)
ConfigA == [image_name |-> "img-a", aws_profile |-> "prof-a", aws_region |-> "eu-west-1"]
ConfigB == [image_name |-> "img-b", aws_profile |-> "prof-b", aws_region |-> "us-east-1"]

\* os.path.join(a, b): b alone when it is absolute, no separator added after an
\* empty a or an a that ends with one
PathJoin(a, b) ==
    IF Len(b) > 0 /\ SubSeq(b, 1, 1) = "/" THEN b
    ELSE IF Len(a) = 0 \/ SubSeq(a, Len(a), Len(a)) = "/" THEN a \o b
    ELSE a \o "/" \o b

\* os.path.join(input_dir, 'sagify', 'config.json')
ConfigPath(input_dir) == PathJoin(PathJoin(input_dir, "sagify"), "config.json")

\* the config files on disk, by path (relative to the working directory):
\* path -> <<content>>, <<>> when there is no file
ConfigFileAt(path) ==
    CASE path \in {"./sagify/config.json", "sagify/config.json"} -> <<ConfigA>>
      [] path = "proj/sagify/config.json" -> <<ConfigB>>
      [] OTHER -> <<>>

\* mutant: the isfile check is dropped
ConfigMissingUnchecked(path) == FALSE

\* not os.path.isfile(config_file_path)
ConfigMissing(path) == ConfigFileAt(path) = <<>>

\* the hyperparameter files on disk: path -> <<text>>, <<>> when there is no file
HyperparamsFileAt(path) ==
    CASE path = "/w/hp.json" -> << "{\"epochs\": 5}" >>
      [] path = "/w/bad.json" -> << "{epochs" >>
      [] OTHER -> <<>>

\* json.load: <<value>> for valid JSON text, <<>> when it raises
JsonLoad(text) ==
    CASE text = "{\"epochs\": 5}" -> << [epochs |-> 5] >>
      [] text = "{}" -> << [k \in {} |-> 0] >>
      [] OTHER -> <<>>

(***************************************************************************)
(* --aws-tags: the validate_tags callback.                                 *)
(***************************************************************************)
\* index of the first sep in s, 0 when there is none
FirstIndex(s, sep) ==
    IF \E i \in 1..Len(s) : s[i] = sep
    THEN CHOOSE i \in 1..Len(s) : s[i] = sep /\ \A j \in 1..(i - 1) : s[j] # sep
    ELSE 0

\* str.split(sep): the pieces of s between the occurrences of sep
RECURSIVE Split(_, _)
Split(s, sep) ==
    LET i == FirstIndex(s, sep)
    IN IF i = 0 THEN <<s>>
       ELSE <<SubSeq(s, 1, i - 1)>> \o Split(SubSeq(s, i + 1, Len(s)), sep)

\* the (key, value) pieces of a tag string, one per ';'-separated segment
TagPairs(value) ==
    LET segs == Split(value, ";")
    IN [i \in 1..Len(segs) |-> Split(segs[i], "=")]

\* a tag string is well formed when every segment is exactly key=value
WellFormedTags(value) ==
    \A i \in 1..Len(TagPairs(value)) : Len(TagPairs(value)[i]) = 2

\* the tag list of a well-formed tag string: one {'Key', 'Value'} entry per key,
\* in the order the keys first appear, a repeated key keeping its last value
RECURSIVE TagList(_, _)
TagList(pairs, i) ==
    IF i > Len(pairs) THEN <<>>
    ELSE IF \E j \in 1..(i - 1) : pairs[j][1] = pairs[i][1]
         THEN TagList(pairs, i + 1)
         ELSE LET last == CHOOSE j \in i..Len(pairs) :
                              /\ pairs[j][1] = pairs[i][1]
                              /\ \A k \in (j + 1)..Len(pairs) : pairs[k][1] # pairs[i][1]
              IN << [Key |-> pairs[i][1], Value |-> pairs[last][2]] >>
                 \o TagList(pairs, i + 1)

\* validate_tags(ctx, param, value): <<tag list>>, or <<>> for an absent option;
\* defined for an absent or a well-formed value only (else it raises BadParameter)
validate_tags(option) ==
    IF option = <<>> THEN <<>> ELSE << TagList(TagPairs(option[1]), 1) >>

\* validate_tags raises click.BadParameter on this option value
TagsRejected(option) == option # <<>> /\ ~WellFormedTags(option[1])

(***************************************************************************)
(* sagify.commands.cloud: what each command passes to sagify.api.cloud.    *)
(***************************************************************************)
UploadDataApiArgs(f) ==
    [dir |-> f.dir, input_dir |-> f.input_dir, s3_dir |-> f.s3_dir]

TrainApiArgs(f, t, o) ==
    [dir |-> f.dir,
     input_s3_dir |-> f.input_s3_dir,
     output_s3_dir |-> f.output_s3_dir,
     hyperparams_file |-> f.hyperparams_file,
     ec2_type |-> f.ec2_type,
     volume_size |-> f.volume_size,
     time_out |-> f.time_out,
     docker_tag |-> o.docker_tag,
     tags |-> t,
     aws_role |-> f.iam_role_arn,
     external_id |-> f.external_id,
     base_job_name |-> f.base_job_name,
     job_name |-> f.job_name]

DeployApiArgs(f, t, o) ==
    [dir |-> f.dir,
     s3_model_location |-> f.s3_model_location,
     num_instances |-> f.num_instances,
     ec2_type |-> f.ec2_type,
     docker_tag |-> o.docker_tag,
     aws_role |-> f.iam_role_arn,
     external_id |-> f.external_id,
     tags |-> t]

BatchTransformApiArgs(f, t, o) ==
    [dir |-> f.dir,
     s3_model_location |-> f.s3_model_location,
     s3_input_location |-> f.s3_input_location,
     s3_output_location |-> f.s3_output_location,
     num_instances |-> f.num_instances,
     ec2_type |-> f.ec2_type,
     docker_tag |-> o.docker_tag,
     aws_role |-> f.iam_role_arn,
     external_id |-> f.external_id,
     tags |-> t]

ApiArgs(c, f, t, o) ==
    CASE c = "upload-data" -> UploadDataApiArgs(f)
      [] c = "train" -> TrainApiArgs(f, t, o)
      [] c = "deploy" -> DeployApiArgs(f, t, o)
      [] c = "batch-transform" -> BatchTransformApiArgs(f, t, o)

(***************************************************************************)
(* sagify.api.cloud: what each function passes to the SageMaker client.    *)
(***************************************************************************)
\* mutant: the separator is forgotten
ImageNameNoColon(cfg, docker_tag) == cfg.image_name \o docker_tag

\* config.image_name + ':' + docker_tag
ImageName(cfg, docker_tag) == cfg.image_name \o ":" \o docker_tag

\* SageMakerClient(config.aws_profile, config.aws_region)
UploadDataClientArgs(cfg) ==
    [aws_profile |-> cfg.aws_profile, aws_region |-> cfg.aws_region]

\* SageMakerClient(config.aws_profile, config.aws_region, aws_role, external_id)
RoleClientArgs(cfg, a) ==
    [aws_profile |-> cfg.aws_profile, aws_region |-> cfg.aws_region,
     aws_role |-> a.aws_role, external_id |-> a.external_id]

ClientArgs(c, cfg, a) ==
    IF c = "upload-data" THEN UploadDataClientArgs(cfg) ELSE RoleClientArgs(cfg, a)

\* sage_maker_client.upload_data(input_dir, s3_dir)
UploadDataRequest(a) ==
    [op |-> "upload_data", args |-> <<a.input_dir, a.s3_dir>>]

\* train_instance_count=1
TrainInstanceCount == 1

\* mutant: the instance count is taken from another argument
TrainRequestCountFromVolume(cfg, a, hp) ==
    [op |-> "train",
     kwargs |-> [image_name |-> cfg.image_name \o ":" \o a.docker_tag,
                 input_s3_data_location |-> a.input_s3_dir,
                 train_instance_count |-> a.volume_size,
                 train_instance_type |-> a.ec2_type,
                 train_volume_size |-> a.volume_size,
                 train_max_run |-> a.time_out,
                 output_path |-> a.output_s3_dir,
                 hyperparameters |-> hp,
                 base_job_name |-> a.base_job_name,
                 job_name |-> a.job_name,
                 tags |-> a.tags]]

\* mutant: train itself drops the base job name when a job name is given
TrainRequestJobNameOverrides(cfg, a, hp) ==
    [op |-> "train",
     kwargs |-> [image_name |-> cfg.image_name \o ":" \o a.docker_tag,
                 input_s3_data_location |-> a.input_s3_dir,
                 train_instance_count |-> 1,
                 train_instance_type |-> a.ec2_type,
                 train_volume_size |-> a.volume_size,
                 train_max_run |-> a.time_out,
                 output_path |-> a.output_s3_dir,
                 hyperparameters |-> hp,
                 base_job_name |-> IF a.job_name # NONE THEN NONE ELSE a.base_job_name,
                 job_name |-> a.job_name,
                 tags |-> a.tags]]

\* sage_maker_client.train(image_name=..., ...)
TrainRequest(cfg, a, hp) ==
    [op |-> "train",
     kwargs |-> [image_name |-> ImageName(cfg, a.docker_tag),
                 input_s3_data_location |-> a.input_s3_dir,
                 train_instance_count |-> TrainInstanceCount,
                 train_instance_type |-> a.ec2_type,
                 train_volume_size |-> a.volume_size,
                 train_max_run |-> a.time_out,
                 output_path |-> a.output_s3_dir,
                 hyperparameters |-> hp,
                 base_job_name |-> a.base_job_name,
                 job_name |-> a.job_name,
                 tags |-> a.tags]]

\* sage_maker_client.deploy(image_name=..., ...)
DeployRequest(cfg, a) ==
    [op |-> "deploy",
     kwargs |-> [image_name |-> ImageName(cfg, a.docker_tag),
                 s3_model_location |-> a.s3_model_location,
                 train_instance_count |-> a.num_instances,
                 train_instance_type |-> a.ec2_type,
                 tags |-> a.tags]]

\* mutant: the input and output locations are swapped
BatchTransformRequestSwapped(cfg, a) ==
    [op |-> "batch_transform",
     kwargs |-> [image_name |-> cfg.image_name \o ":" \o a.docker_tag,
                 s3_model_location |-> a.s3_model_location,
                 s3_input_location |-> a.s3_output_location,
                 s3_output_location |-> a.s3_input_location,
                 transform_instance_count |-> a.num_instances,
                 transform_instance_type |-> a.ec2_type,
                 tags |-> a.tags]]

\* sage_maker_client.batch_transform(image_name=..., ...)
BatchTransformRequest(cfg, a) ==
    [op |-> "batch_transform",
     kwargs |-> [image_name |-> ImageName(cfg, a.docker_tag),
                 s3_model_location |-> a.s3_model_location,
                 s3_input_location |-> a.s3_input_location,
                 s3_output_location |-> a.s3_output_location,
                 transform_instance_count |-> a.num_instances,
                 transform_instance_type |-> a.ec2_type,
                 tags |-> a.tags]]

Request(c, cfg, a, hp) ==
    CASE c = "upload-data" -> UploadDataRequest(a)
      [] c = "train" -> TrainRequest(cfg, a, hp)
      [] c = "deploy" -> DeployRequest(cfg, a)
      [] c = "batch-transform" -> BatchTransformRequest(cfg, a)

\* mutant: the client's result is not returned
ApiReturnNothing(c, client_result) == NONE

\* what the api function returns, given what the client operation returned
ApiReturn(c, client_result) ==
    IF c = "batch-transform" THEN NONE ELSE client_result

(***************************************************************************)
(* Exceptions and log records.                                             *)
(***************************************************************************)
\* ValueError("This is not a sagify directory: {}".format(input_dir))
NotSagifyDirError(input_dir) ==
    [type |-> "ValueError", msg |-> "This is not a sagify directory: " \o input_dir]

\* ValueError("The given hyperparams file {} doens't exist".format(path))
NoHyperparamsFileError(path) ==
    [type |-> "ValueError",
     msg |-> "The given hyperparams file " \o path \o " doens't exist"]

\* json.load on invalid text: json.JSONDecodeError, a ValueError, whose message
\* says what was expected and where
JsonDecodeError(text) ==
    [type |-> "ValueError",
     msg |-> IF text = "{epochs"
             THEN "Expecting property name enclosed in double quotes: line 1 column 2 (char 1)"
             ELSE "Expecting value: line 1 column 1 (char 0)"]

\* what the platform client can raise: a ValueError, or an error of the SDK
ClientErrors ==
    { [type |-> "ValueError", msg |-> "rejected by the platform"],
      [type |-> "ClientError", msg |-> "rejected by the platform"] }

\* what a client operation can return
ClientResults == {"s3://bkt/result", "sagify-endpoint-1"}

\* the success messages of a command, given what the api function returned
SuccessLog(c, r) ==
    CASE c = "upload-data" -> << "Data uploaded to " \o r \o " successfully" >>
      [] c = "train" -> << "Training on SageMaker succeeded",
                           "Model S3 location: " \o r >>
      [] c = "deploy" -> << "Model deployed to SageMaker successfully",
                            "Endpoint name: " \o r >>
      [] c = "batch-transform" -> << "Started batch transform on SageMaker successfully" >>

\* the "Started ..." message of a command
StartedLog(c) ==
    CASE c = "upload-data" -> "Started uploading data to S3...\n"
      [] c = "train" -> "Started training on SageMaker...\n"
      [] c = "deploy" -> "Started deployment on SageMaker ...\n"
      [] c = "batch-transform" -> "Started configuration of batch transform on SageMaker ...\n"

\* sys.exit(-1) in the except ValueError clause
CaughtExitCode == -1
\* the interpreter's exit status for an exception nobody caught
UncaughtExitCode == 1
\* click's exit status for a usage error (BadParameter)
UsageExitCode == 2

\* mutant: a bare except
CatchesEverything(e) == TRUE

\* the command body's except clause: does it catch this exception?
Catches(e) == e.type = "ValueError"

(***************************************************************************)
(* The run.                                                                *)
(***************************************************************************)
Init ==
    /\ pc = "shell"
    /\ cmd = ""
    /\ flags = <<>>
    /\ obj = <<>>
    /\ wanted = 0
    /\ tags = <<>>
    /\ api = <<>>
    /\ config = <<>>
    /\ hyperparams_dict = <<>>
    /\ files_read = <<>>
    /\ clients = <<>>
    /\ calls = <<>>
    /\ client_ret = NONE
    /\ ret = NONE
    /\ exc = <<>>
    /\ handled = FALSE
    /\ log = <<>>
    /\ exit_code = 0

Untouched == <<tags, api, config, hyperparams_dict, files_read, clients, calls,
               client_ret, ret, exc, handled, log, exit_code>>

\* sagify cloud upload-data -d .. -i .. -s ..
InvokeUploadData ==
    /\ pc = "shell"
    /\ \E d \in Dirs, i \in LocalDirs, s \in Locations, dt \in DockerTags :
          /\ flags' = [dir |-> d, input_dir |-> i, s3_dir |-> s]
          /\ obj' = [docker_tag |-> dt]
    /\ cmd' = "upload-data"
    /\ wanted' = 0
    /\ pc' = "click"
    /\ UNCHANGED Untouched

\* sagify cloud train -d .. -i .. -o .. -h .. -e .. -v .. -s .. -a .. -r .. -x .. -n .. --job-name ..
\* There is no option for the instance count: `wanted` stays with the caller.
InvokeTrain ==
    /\ pc = "shell"
    /\ \E d \in Dirs, i \in Locations, o \in Locations, h \in HyperparamsFiles,
          e \in Ec2Types, v \in VolumeSizes, s \in TimeOuts, a \in TagOptions,
          r \in Roles, x \in ExternalIds, n \in BaseJobNames, j \in JobNames,
          dt \in DockerTags, w \in InstanceCounts :
          /\ flags' = [dir |-> d, input_s3_dir |-> i, output_s3_dir |-> o,
                       hyperparams_file |-> h, ec2_type |-> e, volume_size |-> v,
                       time_out |-> s, aws_tags |-> a, iam_role_arn |-> r,
                       external_id |-> x, base_job_name |-> n, job_name |-> j]
          /\ obj' = [docker_tag |-> dt]
          /\ wanted' = w
    /\ cmd' = "train"
    /\ pc' = "click"
    /\ UNCHANGED Untouched

\* sagify cloud deploy -d .. -m .. -n .. -e .. -a .. -r .. -x ..
InvokeDeploy ==
    /\ pc = "shell"
    /\ \E d \in Dirs, m \in Locations, n \in InstanceCounts, e \in Ec2Types,
          a \in TagOptions, r \in Roles, x \in ExternalIds, dt \in DockerTags :
          /\ flags' = [dir |-> d, s3_model_location |-> m, num_instances |-> n,
                       ec2_type |-> e, aws_tags |-> a, iam_role_arn |-> r,
                       external_id |-> x]
          /\ obj' = [docker_tag |-> dt]
          /\ wanted' = n
    /\ cmd' = "deploy"
    /\ pc' = "click"
    /\ UNCHANGED Untouched

\* sagify cloud batch-transform -d .. -m .. -i .. -o .. -n .. -e .. -a .. -r .. -x ..
InvokeBatchTransform ==
    /\ pc = "shell"
    /\ \E d \in Dirs, m \in Locations, i \in Locations, o \in Locations,
          n \in InstanceCounts, e \in Ec2Types, a \in TagOptions, r \in Roles,
          x \in ExternalIds, dt \in DockerTags :
          /\ flags' = [dir |-> d, s3_model_location |-> m, s3_input_location |-> i,
                       s3_output_location |-> o, num_instances |-> n,
                       ec2_type |-> e, aws_tags |-> a, iam_role_arn |-> r,
                       external_id |-> x]
          /\ obj' = [docker_tag |-> dt]
          /\ wanted' = n
    /\ cmd' = "batch-transform"
    /\ pc' = "click"
    /\ UNCHANGED Untouched

\* mutant: deploy's --aws-tags option loses its callback
HasTagsOptionNotDeploy(c) == c \in {"train", "batch-transform"}

HasTagsOption(c) == c \in {"train", "deploy", "batch-transform"}

\* click processes the options and runs their callbacks before the command body:
\* a BadParameter of validate_tags ends the run with a usage error
ClickParse ==
    /\ pc = "click"
    /\ IF HasTagsOption(cmd) /\ TagsRejected(flags.aws_tags)
       THEN /\ pc' = "exited"
            /\ exit_code' = UsageExitCode
            /\ exc' = << [type |-> "BadParameter", msg |-> "bad tags"] >>
            /\ tags' = tags
       ELSE /\ pc' = "body"
            /\ tags' = IF HasTagsOption(cmd) THEN validate_tags(flags.aws_tags) ELSE <<>>
            /\ UNCHANGED <<exit_code, exc>>
    /\ UNCHANGED <<cmd, flags, obj, wanted, api, config, hyperparams_dict,
                   files_read, clients, calls, client_ret, ret, handled, log>>

\* the command body up to the call of the api function
CommandBody ==
    /\ pc = "body"
    /\ log' = log \o << "ASCII_LOGO", StartedLog(cmd) >>
    /\ api' = << ApiArgs(cmd, flags, tags, obj) >>
    /\ pc' = "read_config"
    /\ UNCHANGED <<cmd, flags, obj, wanted, tags, config, hyperparams_dict,
                   files_read, clients, calls, client_ret, ret, exc, handled,
                   exit_code>>

\* _read_config(dir)
ReadConfig ==
    /\ pc = "read_config"
    /\ LET path == ConfigPath(api[1].dir)
       IN IF ConfigMissing(path)
          THEN /\ exc' = << NotSagifyDirError(api[1].dir) >>
               /\ pc' = "raised"
               /\ UNCHANGED <<config, files_read>>
          ELSE /\ config' = ConfigFileAt(path)
               /\ files_read' = Append(files_read, path)
               /\ pc' = IF cmd = "train" THEN "read_hyperparams" ELSE "construct"
               /\ exc' = exc
    /\ UNCHANGED <<cmd, flags, obj, wanted, tags, api, hyperparams_dict,
                   clients, calls, client_ret, ret, handled, log, exit_code>>

\* mutant: the file is read whether or not a path was given
ReadsHyperparamsAlways(a) == TRUE

\* the hyperparameter file is read when hyperparams_file is truthy: neither
\* None nor the empty string
ReadsHyperparams(a) == a.hyperparams_file \notin {NONE, ""}

\* _read_hyperparams_config(hyperparams_file) if hyperparams_file else None
ReadHyperparams ==
    /\ pc = "read_hyperparams"
    /\ LET path == api[1].hyperparams_file
       IN IF ~ReadsHyperparams(api[1])
          THEN /\ hyperparams_dict' = <<>>
               /\ pc' = "construct"
               /\ UNCHANGED <<exc, files_read>>
          ELSE IF HyperparamsFileAt(path) = <<>>
          THEN /\ exc' = << NoHyperparamsFileError(path) >>
               /\ pc' = "raised"
               /\ UNCHANGED <<hyperparams_dict, files_read>>
          ELSE /\ files_read' = Append(files_read, path)
               /\ IF JsonLoad(HyperparamsFileAt(path)[1]) = <<>>
                  THEN /\ exc' = << JsonDecodeError(HyperparamsFileAt(path)[1]) >>
                       /\ pc' = "raised"
                       /\ UNCHANGED hyperparams_dict
                  ELSE /\ hyperparams_dict' = JsonLoad(HyperparamsFileAt(path)[1])
                       /\ pc' = "construct"
                       /\ exc' = exc
    /\ UNCHANGED <<cmd, flags, obj, wanted, tags, api, config, clients, calls,
                   client_ret, ret, handled, log, exit_code>>

\* sagemaker.SageMakerClient(...): returns the client, or raises
ConstructClient ==
    /\ pc = "construct"
    /\ clients' = Append(clients, ClientArgs(cmd, config[1], api[1]))
    /\ \/ /\ pc' = "call"
          /\ exc' = exc
       \/ \E e \in ClientErrors :
             /\ exc' = <<e>>
             /\ pc' = "raised"
    /\ UNCHANGED <<cmd, flags, obj, wanted, tags, api, config, hyperparams_dict,
                   files_read, calls, client_ret, ret, handled, log, exit_code>>

\* mutant: a failed client call is tried once more
CallClientRetry ==
    /\ pc = "call"
    /\ calls' = Append(calls, Request(cmd, config[1], api[1], hyperparams_dict))
    /\ \/ \E r \in ClientResults :
             /\ client_ret' = r
             /\ ret' = IF cmd = "batch-transform" THEN NONE ELSE r
             /\ pc' = "returned"
             /\ exc' = exc
       \/ \E e \in ClientErrors :
             /\ exc' = IF Len(calls) = 0 THEN exc ELSE <<e>>
             /\ pc' = IF Len(calls) = 0 THEN "call" ELSE "raised"
             /\ UNCHANGED <<client_ret, ret>>
    /\ UNCHANGED <<cmd, flags, obj, wanted, tags, api, config, hyperparams_dict,
                   files_read, clients, handled, log, exit_code>>

\* the one client operation: returns, or raises
CallClient ==
    /\ pc = "call"
    /\ calls' = Append(calls, Request(cmd, config[1], api[1], hyperparams_dict))
    /\ \/ \E r \in ClientResults :
             /\ client_ret' = r
             /\ ret' = ApiReturn(cmd, r)
             /\ pc' = "returned"
             /\ exc' = exc
       \/ \E e \in ClientErrors :
             /\ exc' = <<e>>
             /\ pc' = "raised"
             /\ UNCHANGED <<client_ret, ret>>
    /\ UNCHANGED <<cmd, flags, obj, wanted, tags, api, config, hyperparams_dict,
                   files_read, clients, handled, log, exit_code>>

\* the api function returned: the body logs the success and the command ends
LogSuccess ==
    /\ pc = "returned"
    /\ log' = log \o SuccessLog(cmd, ret)
    /\ exit_code' = 0
    /\ pc' = "exited"
    /\ UNCHANGED <<cmd, flags, obj, wanted, tags, api, config, hyperparams_dict,
                   files_read, clients, calls, client_ret, ret, exc, handled>>

\* except ValueError as e: logger.info("{}".format(e)); sys.exit(-1)
HandleValueError ==
    /\ pc = "raised"
    /\ Catches(exc[1])
    /\ handled' = TRUE
    /\ log' = Append(log, exc[1].msg)
    /\ exit_code' = CaughtExitCode
    /\ pc' = "exited"
    /\ UNCHANGED <<cmd, flags, obj, wanted, tags, api, config, hyperparams_dict,
                   files_read, clients, calls, client_ret, ret, exc>>

\* any other exception leaves the command body uncaught
Propagate ==
    /\ pc = "raised"
    /\ ~Catches(exc[1])
    /\ exit_code' = UncaughtExitCode
    /\ pc' = "exited"
    /\ UNCHANGED <<cmd, flags, obj, wanted, tags, api, config, hyperparams_dict,
                   files_read, clients, calls, client_ret, ret, exc, handled, log>>

Next ==
    \/ InvokeUploadData
    \/ InvokeTrain
    \/ InvokeDeploy
    \/ InvokeBatchTransform
    \/ ClickParse
    \/ CommandBody
    \/ ReadConfig
    \/ ReadHyperparams
    \/ ConstructClient
    \/ CallClient
    \/ LogSuccess
    \/ HandleValueError
    \/ Propagate

Spec == Init /\ [][Next]_vars

(***************************************************************************)
(* Properties.                                                             *)
(***************************************************************************)
Commands == {"upload-data", "train", "deploy", "batch-transform"}

\* the api function has been called, for a directory without sagify/config.json
NoConfigOnDisk ==
    api # <<>> /\ ConfigFileAt(ConfigPath(api[1].dir)) = <<>>

\* C1: when <dir>/sagify/config.json does not exist, each of the four
\* operations ends with a ValueError, and in that run no client is constructed
\* and no client operation is called.
MissingConfigIsLocalError ==
    NoConfigOnDisk =>
        /\ cmd \in Commands
        /\ clients = <<>>
        /\ calls = <<>>
        /\ config = <<>>
        /\ pc \in {"read_config", "raised", "exited"}
        /\ pc # "read_config" =>
              /\ exc # <<>>
              /\ exc[1].type = "ValueError"
              /\ exc[1].msg = "This is not a sagify directory: " \o api[1].dir

MissingConfigWitness ==
    /\ NoConfigOnDisk
    /\ cmd = "batch-transform"
    /\ pc = "exited"
    /\ exc # <<>>

\* the run is of a command with --aws-tags, and the tag string is malformed
MalformedTagsGiven ==
    /\ cmd \in {"train", "deploy", "batch-transform"}
    /\ flags.aws_tags # <<>>
    /\ ~WellFormedTags(flags.aws_tags[1])

\* C2: for train, deploy and batch-transform, a malformed --aws-tags string is
\* rejected before the command body runs: in such a run no config is read, no
\* client is constructed and no client operation is called.
MalformedTagsRejectedFirst ==
    MalformedTagsGiven =>
        /\ pc \in {"click", "exited"}
        /\ api = <<>>
        /\ config = <<>>
        /\ files_read = <<>>
        /\ clients = <<>>
        /\ calls = <<>>
        /\ log = <<>>
        /\ pc = "exited" => exit_code # 0

MalformedTagsWitness ==
    /\ MalformedTagsGiven
    /\ cmd = "deploy"
    /\ flags.aws_tags = << <<"k", "=", "v", ";">> >>
    /\ pc = "exited"

\* C3 as claimed: the instance count of every training request is the instance
\* count the caller asked for.
TrainForwardsInstanceCount ==
    \A i \in 1..Len(calls) :
        calls[i].op = "train" => calls[i].kwargs.train_instance_count = wanted

\* C3 as amended: train takes no instance count from the caller; every
\* training request carries the instance count 1.
TrainInstanceCountIsOne ==
    \A i \in 1..Len(calls) :
        calls[i].op = "train" => calls[i].kwargs.train_instance_count = 1

TrainInstanceCountWitness ==
    /\ Len(calls) = 1
    /\ calls[1].op = "train"
    /\ wanted = 2
    /\ flags.volume_size = 50

\* the hyperparameters train is to send: the content of the file, None without one
HyperparamsOnDisk(path) ==
    IF path \in {NONE, ""} THEN <<>> ELSE JsonLoad(HyperparamsFileAt(path)[1])

\* C4: every value of the request to the client, and the role and external id
\* the client is constructed with, is the value the caller gave for it; the
\* hyperparameters are the content loaded from the file, or None without a file.
FlagsForwardedUnmodified ==
    /\ \A i \in 1..Len(clients) :
          cmd # "upload-data" =>
              /\ clients[i].aws_role = api[1].aws_role
              /\ clients[i].external_id = api[1].external_id
              /\ api[1].aws_role = flags.iam_role_arn
              /\ api[1].external_id = flags.external_id
    /\ \A i \in 1..Len(calls) :
          LET k == calls[i]
              a == api[1]
          IN  /\ cmd = "upload-data" =>
                    /\ k.op = "upload_data"
                    /\ k.args = <<a.input_dir, a.s3_dir>>
                    /\ k.args = <<flags.input_dir, flags.s3_dir>>
              /\ cmd = "train" =>
                    /\ k.op = "train"
                    /\ k.kwargs.input_s3_data_location = a.input_s3_dir
                    /\ k.kwargs.output_path = a.output_s3_dir
                    /\ k.kwargs.train_instance_type = a.ec2_type
                    /\ k.kwargs.train_volume_size = a.volume_size
                    /\ k.kwargs.train_max_run = a.time_out
                    /\ k.kwargs.base_job_name = a.base_job_name
                    /\ k.kwargs.job_name = a.job_name
                    /\ k.kwargs.tags = a.tags
                    /\ k.kwargs.hyperparameters = HyperparamsOnDisk(a.hyperparams_file)
                    /\ a.input_s3_dir = flags.input_s3_dir
                    /\ a.output_s3_dir = flags.output_s3_dir
                    /\ a.ec2_type = flags.ec2_type
                    /\ a.volume_size = flags.volume_size
                    /\ a.time_out = flags.time_out
                    /\ a.base_job_name = flags.base_job_name
                    /\ a.job_name = flags.job_name
                    /\ a.hyperparams_file = flags.hyperparams_file
                    /\ a.tags = tags
              /\ cmd = "deploy" =>
                    /\ k.op = "deploy"
                    /\ k.kwargs.s3_model_location = a.s3_model_location
                    /\ k.kwargs.train_instance_count = a.num_instances
                    /\ k.kwargs.train_instance_type = a.ec2_type
                    /\ k.kwargs.tags = a.tags
                    /\ a.s3_model_location = flags.s3_model_location
                    /\ a.num_instances = flags.num_instances
                    /\ a.ec2_type = flags.ec2_type
                    /\ a.tags = tags
              /\ cmd = "batch-transform" =>
                    /\ k.op = "batch_transform"
                    /\ k.kwargs.s3_model_location = a.s3_model_location
                    /\ k.kwargs.s3_input_location = a.s3_input_location
                    /\ k.kwargs.s3_output_location = a.s3_output_location
                    /\ k.kwargs.transform_instance_count = a.num_instances
                    /\ k.kwargs.transform_instance_type = a.ec2_type
                    /\ k.kwargs.tags = a.tags
                    /\ a.s3_model_location = flags.s3_model_location
                    /\ a.s3_input_location = flags.s3_input_location
                    /\ a.s3_output_location = flags.s3_output_location
                    /\ a.num_instances = flags.num_instances
                    /\ a.ec2_type = flags.ec2_type
                    /\ a.tags = tags

FlagsForwardedWitness ==
    /\ Len(calls) = 1
    /\ cmd = "batch-transform"
    /\ flags.s3_input_location # flags.s3_output_location
    /\ flags.num_instances = 2
    /\ flags.iam_role_arn # NONE
    /\ tags # <<>>

\* the run's client call returned without error
ClientCallSucceeded == Len(calls) = 1 /\ exc = <<>> /\ pc \in {"returned", "exited"}

\* the success messages of the four commands
SuccessMessages ==
    UNION { { "Data uploaded to " \o r \o " successfully",
              "Training on SageMaker succeeded",
              "Model S3 location: " \o r,
              "Model deployed to SageMaker successfully",
              "Endpoint name: " \o r,
              "Started batch transform on SageMaker successfully" }
            : r \in ClientResults \cup {NONE} }

\* C5: on success upload_data, train and deploy return and log exactly what the
\* client returned and batch_transform returns nothing; a success message is
\* logged only in a run whose client call returned without error.
SuccessEchoedVerbatim ==
    /\ ClientCallSucceeded =>
          /\ client_ret \in ClientResults
          /\ cmd # "batch-transform" => ret = client_ret
          /\ cmd = "batch-transform" => ret = NONE
    /\ (ClientCallSucceeded /\ pc = "exited") =>
          /\ Len(log) > 2
          /\ cmd = "upload-data" =>
                SubSeq(log, 3, Len(log))
                    = << "Data uploaded to " \o client_ret \o " successfully" >>
          /\ cmd = "train" =>
                SubSeq(log, 3, Len(log))
                    = << "Training on SageMaker succeeded",
                         "Model S3 location: " \o client_ret >>
          /\ cmd = "deploy" =>
                SubSeq(log, 3, Len(log))
                    = << "Model deployed to SageMaker successfully",
                         "Endpoint name: " \o client_ret >>
          /\ cmd = "batch-transform" =>
                SubSeq(log, 3, Len(log))
                    = << "Started batch transform on SageMaker successfully" >>
    /\ (\E i \in 1..Len(log) : log[i] \in SuccessMessages) =>
          ClientCallSucceeded /\ pc = "exited"

SuccessEchoedWitness ==
    /\ ClientCallSucceeded
    /\ pc = "exited"
    /\ cmd = "deploy"
    /\ client_ret = "sagify-endpoint-1"

\* C6 as claimed: a run of a command body ends with -1 when an error was caught
\* and with 0 in every other case, whatever the failure was.
ExitMinusOneOrZero ==
    (pc = "exited" /\ api # <<>>) => exit_code = (IF handled THEN -1 ELSE 0)

\* C6 as amended: a run ends with -1 when a ValueError was raised (it is caught),
\* with 0 when no error occurred, with 1 when the client raised another error
\* (it propagates uncaught) and with 2 when the tag string was malformed (a
\* usage error).
ExitCodeByOutcome ==
    pc = "exited" =>
        IF exc = <<>> THEN exit_code = 0 /\ ~handled
        ELSE IF exc[1].type = "ValueError" THEN exit_code = -1 /\ handled
        ELSE IF exc[1].type = "BadParameter" THEN exit_code = 2 /\ ~handled
        ELSE exit_code = 1 /\ ~handled /\ Len(clients) = 1

ExitCodeWitness ==
    /\ pc = "exited"
    /\ exc # <<>>
    /\ exc[1].type = "ClientError"
    /\ Len(calls) = 1
    /\ cmd = "upload-data"

\* train was called with a hyperparameter file that is missing or not JSON
BadHyperparamsFile ==
    /\ cmd = "train"
    /\ api # <<>>
    /\ api[1].hyperparams_file \notin {NONE, ""}
    /\ \/ HyperparamsFileAt(api[1].hyperparams_file) = <<>>
       \/ JsonLoad(HyperparamsFileAt(api[1].hyperparams_file)[1]) = <<>>

\* train was called without a hyperparameter file
NoHyperparamsFile ==
    cmd = "train" /\ api # <<>> /\ api[1].hyperparams_file \in {NONE, ""}

\* C7: a missing or invalid hyperparameter file makes train fail with a local
\* error that is logged, the process exits non-zero, and no client is
\* constructed and no job started; without a path no file is read and train
\* does not fail on the hyperparameters.
HyperparamsFailureIsLocal ==
    /\ BadHyperparamsFile =>
          /\ clients = <<>>
          /\ calls = <<>>
          /\ pc \in {"read_config", "read_hyperparams", "raised", "exited"}
          /\ pc = "exited" =>
                /\ exc # <<>>
                /\ exc[1].type = "ValueError"
                /\ log[Len(log)] = exc[1].msg
                /\ exit_code # 0
    /\ NoHyperparamsFile =>
          /\ \A i \in 1..Len(files_read) : files_read[i] = ConfigPath(api[1].dir)
          /\ hyperparams_dict = <<>>
          /\ exc # <<>> =>
                /\ exc[1].msg \notin
                      { "Expecting property name enclosed in double quotes: line 1 column 2 (char 1)",
                        "Expecting value: line 1 column 1 (char 0)" }
                /\ \A p \in HyperparamsFiles \cup {""} :
                      exc[1].msg # "The given hyperparams file " \o p \o " doens't exist"

HyperparamsFailureWitness ==
    /\ BadHyperparamsFile
    /\ api[1].hyperparams_file = "/w/bad.json"
    /\ files_read = << ConfigPath(api[1].dir), "/w/bad.json" >>
    /\ pc = "exited"
    /\ exit_code = -1

\* C8 as claimed: with a job name given, the base job name does not reach the
\* training request.
BaseJobNameIgnored ==
    \A i \in 1..Len(calls) :
        (calls[i].op = "train" /\ api[1].job_name # NONE) =>
            calls[i].kwargs.base_job_name = NONE

\* C8 as amended: with both names given, train forwards both unmodified to the
\* client; it does not itself drop the base job name.
BothJobNamesForwarded ==
    \A i \in 1..Len(calls) :
        (calls[i].op = "train" /\ api[1].job_name # NONE
                               /\ api[1].base_job_name # NONE) =>
            /\ calls[i].kwargs.job_name = flags.job_name
            /\ calls[i].kwargs.base_job_name = flags.base_job_name

BothJobNamesWitness ==
    /\ Len(calls) = 1
    /\ calls[1].op = "train"
    /\ flags.job_name = "job-1"
    /\ flags.base_job_name = "base"

\* C9: a run calls at most one client operation, once; a failure of the call
\* is propagated with no retry and no recovery; the client is constructed only
\* after the config file was read.
OneClientCallNoRetry ==
    /\ Len(calls) <= 1
    /\ Len(clients) <= 1
    /\ calls # <<>> => clients # <<>>
    /\ clients # <<>> =>
          /\ config # <<>>
          /\ Len(files_read) >= 1
          /\ files_read[1] = ConfigPath(api[1].dir)
    /\ (calls # <<>> /\ pc \notin {"returned"} /\ client_ret = NONE) =>
          /\ exc # <<>>
          /\ exc[1] \in ClientErrors
          /\ pc \in {"raised", "exited"}
          /\ ret = NONE

OneClientCallWitness ==
    /\ Len(calls) = 1
    /\ cmd = "deploy"
    /\ exc # <<>>
    /\ pc = "exited"
    /\ handled

\* the config file of the directory the run was given
ConfigOnDisk == ConfigFileAt(ConfigPath(flags.dir))[1]

\* C10: the image reference of a train, deploy or batch_transform request is
\* config.image_name ':' docker_tag, the client is constructed with the profile
\* and region of the config file of that invocation, and upload_data constructs
\* it with profile and region only.
ImageAndClientFromConfig ==
    /\ \A i \in 1..Len(calls) :
          cmd # "upload-data" =>
              calls[i].kwargs.image_name
                  = ConfigOnDisk.image_name \o ":" \o obj.docker_tag
    /\ \A i \in 1..Len(clients) :
          /\ clients[i].aws_profile = ConfigOnDisk.aws_profile
          /\ clients[i].aws_region = ConfigOnDisk.aws_region
          /\ cmd = "upload-data" =>
                DOMAIN clients[i] = {"aws_profile", "aws_region"}
          /\ cmd # "upload-data" =>
                DOMAIN clients[i]
                    = {"aws_profile", "aws_region", "aws_role", "external_id"}

ImageAndClientWitness ==
    /\ Len(calls) = 1
    /\ cmd = "train"
    /\ flags.dir = "proj"
    /\ obj.docker_tag = "v2"
    /\ calls[1].kwargs.image_name = "img-b:v2"

====
